---- MODULE Spec2Model ----
(***************************************************************************)
(* Task dashboards of the repository.  The repository holds three React    *)
(* applications that implement the same task store:                        *)
(*   "uuid"  - src/App.js with uuid ids, a modal TaskForm and memoized     *)
(*             statistics (unnamed/part_002, unnamed/part_005:33-321);     *)
(*   "local" - src/App.js that mirrors the tasks to localStorage           *)
(*             (unnamed/part_009, src/setupTests.js:129-285);              *)
(*   "cdn"   - src/app.jsx, a single component with seed tasks             *)
(*             (unnamed/part_005:334-555).                                 *)
(* One behaviour is one session of one application (variable app).  An     *)
(* action is one event handler together with the re-render and the effects *)
(* React runs before the next event.                                       *)
(***************************************************************************)
EXTENDS Integers, Sequences, FiniteSets, TLC

----------------------------------------------------------------------------
(* Bounds of the model *)

MaxTasks == 4
MaxClock == 1
MaxUuid == 5
MaxStepsUuid == 3
MaxStepsLocal == 6
MaxStepsCdn == 3
StatsMaxTotal == 40
MaxListTasks == 3

----------------------------------------------------------------------------
(* JavaScript values *)

\* null
Null == [null |-> TRUE]

\* {} (an object without properties)
EmptyObj == <<>>

\* { ...a, ...b }
Spread(a, b) == [k \in DOMAIN a \cup DOMAIN b |-> IF k \in DOMAIN b THEN b[k] ELSE a[k]]

\* A string is pre blanks, then a text of len characters that neither starts
\* nor ends with a blank, then post blanks.
Str(text, len) == [pre |-> 0, text |-> text, len |-> len, post |-> 0]

Padded(pre, text, len, post) == [pre |-> pre, text |-> text, len |-> len, post |-> post]

\* ''
EmptyStr == Str("", 0)

\* String.prototype.length
Length(s) == s.pre + s.len + s.post

\* String.prototype.trim
Trim(s) == [pre |-> 0, text |-> s.text, len |-> s.len, post |-> 0]

\* !s, the truthiness of a string
IsEmptyStr(s) == Length(s) = 0

\* new Date().toISOString() at clock reading ms
ToISOString(ms) == [iso |-> ms]

\* the n-th value drawn from uuidv4()
Uuid(n) == <<"uuid", n>>

----------------------------------------------------------------------------
(* IEEE-754 double arithmetic of (completed / total) * 100 and Math.round. *)
(* A positive double is (hi * 2^36 + mid * 2^18 + lo) / 2^e: its 53-bit    *)
(* significand is kept in three limbs of 17, 18 and 18 bits.               *)

LimbBits == 18
Limb == 2 ^ LimbBits
HiLimb == 2 ^ (LimbBits - 1)

RECURSIVE LeadingZeros(_, _)
LeadingZeros(c, t) == IF 2 * c >= t THEN 0 ELSE 1 + LeadingZeros(2 * c, t)

\* round to nearest, ties to even: one unit in the last place is added when up
RoundDouble(hi, mid, lo, e, up) ==
  LET lo1  == IF up THEN lo + 1 ELSE lo
      mid1 == mid + (lo1 \div Limb)
      hi1  == hi + (mid1 \div Limb)
  IN  IF hi1 = HiLimb
      THEN [hi |-> HiLimb \div 2, mid |-> 0, lo |-> 0, e |-> e - 1]
      ELSE [hi |-> hi1, mid |-> mid1 % Limb, lo |-> lo1 % Limb, e |-> e]

\* c / t for 0 < c <= t
FDiv(c, t) ==
  LET z   == LeadingZeros(c, t)
      r0  == c * (2 ^ z)
      hi  == (r0 * HiLimb) \div t
      r1  == (r0 * HiLimb) % t
      mid == (r1 * Limb) \div t
      r2  == (r1 * Limb) % t
      lo  == (r2 * Limb) \div t
      r3  == (r2 * Limb) % t
      up  == 2 * r3 > t \/ (2 * r3 = t /\ lo % 2 = 1)
  IN  IF c = t
      THEN [hi |-> HiLimb \div 2, mid |-> 0, lo |-> 0, e |-> 3 * LimbBits - 2]
      ELSE RoundDouble(hi, mid, lo, z + 3 * LimbBits - 1, up)

\* x * 100
FMul100(x) ==
  LET p3   == x.lo * 100
      p2   == (x.mid * 100) + (p3 \div Limb)
      p1   == (x.hi * 100) + (p2 \div Limb)
      l3   == p3 % Limb
      l2   == p2 % Limb
      drop == IF p1 >= 64 * HiLimb THEN 7 ELSE 6
      d    == 2 ^ drop
      keep == Limb \div d
      tail == l3 % d
      lo   == (l3 \div d) + ((l2 % d) * keep)
      mid  == (l2 \div d) + ((p1 % d) * keep)
      hi   == p1 \div d
      up   == 2 * tail > d \/ (2 * tail = d /\ lo % 2 = 1)
  IN  RoundDouble(hi, mid, lo, x.e - drop, up)

\* Math.round(x) = floor(x + 0.5), for 0 < x < 2^16
MathRound(x) ==
  LET f == x.e - 2 * LimbBits
  IN  (x.hi \div (2 ^ f)) + ((x.hi \div (2 ^ (f - 1))) % 2)

\* Math.round((completed / total) * 100) for total > 0; 0 / total is 0
RoundedPercent(completed, total) ==
  IF completed = 0 THEN 0 ELSE MathRound(FMul100(FDiv(completed, total)))

----------------------------------------------------------------------------
(* Seed data *)

seedTasks ==
  << [ id |-> 1,
       title |-> Str("Prep user research", 18),
       description |-> Str("Outline interview questions and schedule 3 sessions.", 52),
       dueDate |-> "2026-01-16",
       status |-> "pending" ],
     [ id |-> 2,
       title |-> Str("Design system audit", 19),
       description |-> Str("Review button states and consolidate color tokens.", 50),
       dueDate |-> "2026-01-18",
       status |-> "completed" ],
     [ id |-> 3,
       title |-> Str("Sprint demo deck", 16),
       description |-> Str("Collect metrics and craft the story arc for the demo.", 53),
       dueDate |-> "2026-01-20",
       status |-> "pending" ] >>

\* the clock reading at which the page is loaded: later than every seed id
StartTime == Len(seedTasks) + 1

INITIAL_TASKS ==
  << [ id |-> Uuid(1),
       title |-> Str("Complete project proposal", 25),
       description |-> Str("Draft and submit the Q1 project proposal to the team lead", 57),
       dueDate |-> "2026-01-20",
       completed |-> FALSE,
       createdAt |-> ToISOString(StartTime) ],
     [ id |-> Uuid(2),
       title |-> Str("Review code changes", 19),
       description |-> Str("Review pull requests from the development team", 46),
       dueDate |-> "2026-01-15",
       completed |-> TRUE,
       createdAt |-> ToISOString(StartTime) ],
     [ id |-> Uuid(3),
       title |-> Str("Team meeting preparation", 24),
       description |-> Str("Prepare slides and agenda for the weekly team sync", 50),
       dueDate |-> "2026-01-16",
       completed |-> FALSE,
       createdAt |-> ToISOString(StartTime) ] >>

----------------------------------------------------------------------------
(* What the user can type into the form *)

TypedTitles ==
  { EmptyStr, Padded(2, "", 0, 0), Str("ab", 2), Padded(1, "abc", 3, 1) }

TypedDescriptions == { EmptyStr, Padded(1, "d", 1, 0) }

\* what can be typed or set into the due date field
RawDueDates == { "", "2026-03-01", "not-a-date" }

\* the valid date strings among the texts of the model
CalendarDates ==
  { "2026-03-01" } \cup { seedTasks[i].dueDate : i \in 1..Len(seedTasks) }
                   \cup { INITIAL_TASKS[i].dueDate : i \in 1..Len(INITIAL_TASKS) }

\* the value of an <input type="text">: the text as it was entered
DateInputValue_text(raw) == raw

\* the value of an <input type="date">: a text that is not a valid date string
\* is replaced by the empty string
DateInputValue(raw) == IF raw \in CalendarDates THEN raw ELSE ""

TypedDueDates == { DateInputValue(raw) : raw \in RawDueDates }

EmptyForm == [title |-> EmptyStr, description |-> EmptyStr, dueDate |-> ""]

----------------------------------------------------------------------------
(* State *)

VARIABLES
  app,          \* which application this session runs
  now,          \* the clock: Date.now()
  uuidCount,    \* number of values drawn from uuidv4()
  tasks,        \* useState: the task collection
  taskStats,    \* the statistics of the last render (useMemo)
  isModalOpen,  \* uuid app: useState(false)
  showForm,     \* local app: useState(false)
  editingTask,  \* uuid and local app: useState(null)
  editingId,    \* cdn app: useState(null), 0 stands for null
  formData,     \* TaskForm formData / cdn form, as last set by the program
  errors,       \* TaskForm errors
  error,        \* cdn app: useState("")
  storage,      \* localStorage item 'tasks'
  pending,      \* local app: the setTasks queued by the load effect
  phase,        \* "unmounted", "loaded", "ready" or "crashed"
  lastError,    \* the error that unmounted the tree
  steps,        \* number of events handled in this session
  filter,       \* TaskList of the uuid app: useState('all')
  filteredTasks,\* TaskList of the uuid app: the filteredTasks of the last render
  sortedTasks   \* TaskList: the sortedTasks of the last render, the list shown

vars ==
  << app, now, uuidCount, tasks, taskStats, isModalOpen, showForm, editingTask,
     editingId, formData, errors, error, storage, pending, phase, lastError, steps,
     filter, filteredTasks, sortedTasks >>

\* the task list is followed in the specification of the TaskList components
ListInert == UNCHANGED << filter, filteredTasks, sortedTasks >>

\* the contents the form can have when it is submitted: every field is as the
\* program last set it or as the user typed it
FormContents ==
  [ title : TypedTitles \cup {formData.title},
    description : TypedDescriptions \cup {formData.description},
    dueDate : TypedDueDates \cup {formData.dueDate} ]

Ids(ts) == { ts[i].id : i \in 1..Len(ts) }

----------------------------------------------------------------------------
(* Statistics *)

\* uuid app, App.taskStats
taskStatsOf(ts) ==
  LET total          == Len(ts)
      completed      == Cardinality({ i \in 1..Len(ts) : ts[i].completed })
      pendingCount   == total - completed
      completionRate == IF total > 0 THEN RoundedPercent(completed, total) ELSE 0
  IN  [ total |-> total, completed |-> completed, pending |-> pendingCount,
        completionRate |-> completionRate ]

\* cdn app, App.stats
statsOf(ts) ==
  LET total          == Len(ts)
      completed      == Cardinality({ i \in 1..Len(ts) : ts[i].status = "completed" })
      pendingCount   == total - completed
      completionRate == IF total = 0 THEN 0 ELSE RoundedPercent(completed, total)
  IN  [ total |-> total, completed |-> completed, pending |-> pendingCount,
        completionRate |-> completionRate ]

\* local app, Dashboard: the statistics it shows for the tasks it is handed;
\* the component is not part of the sources, the projection is the documented
\* one: completionRate = round(completed / total * 100) when total > 0, else 0
LocalDashboard_stats(ts) ==
  LET total     == Len(ts)
      completed == Cardinality({ i \in 1..Len(ts) : ts[i].completed })
  IN  [ total |-> total, completed |-> completed, pending |-> total - completed,
        completionRate |-> IF total > 0 THEN RoundedPercent(completed, total) ELSE 0 ]

\* the local app hands the tasks to a Dashboard that is not part of the sources
NoStats == [total |-> 0, completed |-> 0, pending |-> 0, completionRate |-> 0]

----------------------------------------------------------------------------
(* Initial states *)

InitUuid ==
  /\ app = "uuid"
  /\ now = StartTime
  /\ uuidCount = Len(INITIAL_TASKS)
  /\ tasks = INITIAL_TASKS
  /\ taskStats = taskStatsOf(INITIAL_TASKS)
  /\ isModalOpen = FALSE
  /\ showForm = FALSE
  /\ editingTask = Null
  /\ editingId = 0
  /\ formData = EmptyForm
  /\ errors = EmptyObj
  /\ error = ""
  /\ storage = Null
  /\ pending = Null
  /\ phase = "ready"
  /\ lastError = "none"
  /\ steps = 0
  /\ filter = "all"
  /\ filteredTasks = <<>>
  /\ sortedTasks = <<>>

\* the number of events a session of the application is followed for
MaxSteps ==
  CASE app = "uuid" -> MaxStepsUuid
    [] app = "local" -> MaxStepsLocal
    [] app = "cdn" -> MaxStepsCdn

\* one more event is handled
Event == steps < MaxSteps /\ steps' = steps + 1

\* the clock advances between two events, or it does not
Tick ==
  /\ now < StartTime + MaxClock
  /\ now' = now + 1
  /\ UNCHANGED << app, uuidCount, tasks, taskStats, isModalOpen, showForm, editingTask,
                  editingId, formData, errors, error, storage, pending, phase, lastError, steps >>
  /\ ListInert

----------------------------------------------------------------------------
(* uuid app: TaskForm (unnamed/part_005) *)

TitleMinLength == 3
TitleMaxLength == 100
DescriptionMaxLength == 500

UuidTaskForm_validateField(name, value) ==
  CASE name = "title" ->
         IF IsEmptyStr(Trim(value)) THEN "Title is required"
         ELSE IF Length(Trim(value)) < TitleMinLength
              THEN "Title must be at least 3 characters"
         ELSE IF Length(Trim(value)) > TitleMaxLength
              THEN "Title must be less than 100 characters"
         ELSE ""
    [] name = "dueDate" ->
         IF value = "" THEN "Due date is required" ELSE ""
    [] name = "description" ->
         IF Length(value) > DescriptionMaxLength
         THEN "Description must be less than 500 characters" ELSE ""
    [] OTHER -> ""

UuidTaskForm_validateForm(fd) ==
  [ key \in { k \in DOMAIN fd : UuidTaskForm_validateField(k, fd[k]) # "" } |->
      UuidTaskForm_validateField(key, fd[key]) ]

----------------------------------------------------------------------------
(* uuid app: App (unnamed/part_002) *)

UuidInert ==
  /\ Event
  /\ ListInert
  /\ UNCHANGED << app, now, showForm, editingId, error, storage, pending, phase, lastError >>

UuidApp_handleAddTask(taskData) ==
  LET newTask == Spread(Spread([id |-> Uuid(uuidCount + 1)], taskData),
                        [completed |-> FALSE, createdAt |-> ToISOString(now)])
  IN  /\ Len(tasks) < MaxTasks
      /\ uuidCount < MaxUuid
      /\ uuidCount' = uuidCount + 1
      /\ tasks' = Append(tasks, newTask)
      /\ isModalOpen' = FALSE
      /\ UNCHANGED editingTask

UuidApp_handleEditTask(taskData) ==
  /\ tasks' = [ i \in 1..Len(tasks) |->
                 IF tasks[i].id = editingTask.id
                 THEN Spread(Spread(tasks[i], taskData), [updatedAt |-> ToISOString(now)])
                 ELSE tasks[i] ]
  /\ editingTask' = Null
  /\ isModalOpen' = FALSE
  /\ UNCHANGED uuidCount

UuidApp_handleFormSubmit(taskData) ==
  IF editingTask # Null
  THEN UuidApp_handleEditTask(taskData)
  ELSE UuidApp_handleAddTask(taskData)

\* handleSubmit without the validateForm() check
UuidTaskForm_handleSubmit_unvalidated(fd) ==
  /\ app = "uuid"
  /\ isModalOpen
  /\ UuidApp_handleFormSubmit([ title |-> Trim(fd.title),
                                description |-> Trim(fd.description),
                                dueDate |-> fd.dueDate ])
  /\ formData' = EmptyForm
  /\ errors' = EmptyObj
  /\ taskStats' = taskStatsOf(tasks')
  /\ UuidInert

\* TaskForm.handleSubmit with the form holding fd; the form is mounted only
\* while the modal is open and is unmounted when the modal closes
UuidTaskForm_handleSubmit(fd) ==
  LET formErrors == UuidTaskForm_validateForm(fd)
  IN  /\ app = "uuid"
      /\ isModalOpen
      /\ IF DOMAIN formErrors = {}
         THEN /\ UuidApp_handleFormSubmit([ title |-> Trim(fd.title),
                                            description |-> Trim(fd.description),
                                            dueDate |-> fd.dueDate ])
              /\ formData' = EmptyForm
              /\ errors' = EmptyObj
         ELSE /\ errors' = formErrors
              /\ UNCHANGED << uuidCount, tasks, isModalOpen, editingTask, formData >>
      /\ taskStats' = taskStatsOf(tasks')
      /\ UuidInert

UuidApp_handleToggleComplete(taskId) ==
  /\ app = "uuid"
  /\ tasks' = [ i \in 1..Len(tasks) |->
                 IF tasks[i].id = taskId
                 THEN Spread(tasks[i], [ completed |-> ~tasks[i].completed,
                                         updatedAt |-> ToISOString(now) ])
                 ELSE tasks[i] ]
  /\ taskStats' = taskStatsOf(tasks')
  /\ UNCHANGED << uuidCount, isModalOpen, editingTask, formData, errors >>
  /\ UuidInert

\* handleDeleteTask with the filter's test inverted
UuidApp_handleDeleteTask_inverted(taskId) ==
  /\ app = "uuid"
  /\ tasks' = SelectSeq(tasks, LAMBDA task : task.id = taskId)
  /\ taskStats' = taskStatsOf(tasks')
  /\ UNCHANGED << uuidCount, isModalOpen, editingTask, formData, errors >>
  /\ UuidInert

UuidApp_handleDeleteTask(taskId) ==
  /\ app = "uuid"
  /\ tasks' = SelectSeq(tasks, LAMBDA task : task.id # taskId)
  /\ taskStats' = taskStatsOf(tasks')
  /\ UNCHANGED << uuidCount, isModalOpen, editingTask, formData, errors >>
  /\ UuidInert

UuidApp_openAddModal ==
  /\ app = "uuid"
  /\ editingTask' = Null
  /\ isModalOpen' = TRUE
  /\ formData' = IF isModalOpen THEN formData ELSE EmptyForm
  /\ errors' = IF isModalOpen THEN errors ELSE EmptyObj
  /\ UNCHANGED << uuidCount, tasks, taskStats >>
  /\ UuidInert

UuidApp_openEditModal(task) ==
  /\ app = "uuid"
  /\ editingTask' = task
  /\ isModalOpen' = TRUE
  /\ formData' = [ title |-> task.title, description |-> task.description,
                   dueDate |-> task.dueDate ]
  /\ errors' = IF isModalOpen THEN errors ELSE EmptyObj
  /\ UNCHANGED << uuidCount, tasks, taskStats >>
  /\ UuidInert

UuidApp_closeModal ==
  /\ app = "uuid"
  /\ isModalOpen
  /\ isModalOpen' = FALSE
  /\ editingTask' = Null
  /\ formData' = EmptyForm
  /\ errors' = EmptyObj
  /\ UNCHANGED << uuidCount, tasks, taskStats >>
  /\ UuidInert

NextUuid ==
  \/ UuidApp_openAddModal
  \/ \E i \in 1..Len(tasks) : UuidApp_openEditModal(tasks[i])
  \/ UuidApp_closeModal
  \/ \E fd \in FormContents : UuidTaskForm_handleSubmit(fd)
  \/ \E i \in 1..Len(tasks) : UuidApp_handleToggleComplete(tasks[i].id)
  \/ \E i \in 1..Len(tasks) : UuidApp_handleDeleteTask(tasks[i].id)
  \/ (app = "uuid" /\ Tick)

SpecUuid == InitUuid /\ [][NextUuid]_vars

----------------------------------------------------------------------------
(* local app: JSON and localStorage *)

\* A text is [kind |-> "array", items |-> ...] when it is the JSON of an array
\* of objects, each item being the object's set of <<key, value>> members,
\* [kind |-> "null"] when it is the JSON text null, and [kind |-> "garbage"]
\* when it is not JSON at all.
\* JSON.stringify with a replacer list that leaves createdAt out
JSONstringify_replacer(value) ==
  [ kind  |-> "array",
    items |-> [ i \in 1..Len(value) |->
                  { <<k, value[i][k]>> : k \in DOMAIN value[i] \ {"createdAt"} } ] ]

JSONstringify(value) ==
  [ kind  |-> "array",
    items |-> [ i \in 1..Len(value) |-> { <<k, value[i][k]>> : k \in DOMAIN value[i] } ] ]

FromItems(items) ==
  [ i \in 1..Len(items) |->
      [ k \in { m[1] : m \in items[i] } |-> (CHOOSE m \in items[i] : m[1] = k)[2] ] ]

\* JSON.parse: the value and its type, or the SyntaxError it throws
JSONparse(text) ==
  CASE text.kind = "array" -> [ threw |-> "none", type |-> "array", value |-> FromItems(text.items) ]
    [] text.kind = "null" -> [ threw |-> "none", type |-> "null", value |-> Null ]
    [] text.kind = "garbage" -> [ threw |-> "SyntaxError", type |-> "undefined", value |-> Null ]

\* what localStorage can hold for the key 'tasks' when the page is opened:
\* nothing (getItem returns null), or one of the texts
InitialStorage ==
  { Null, [kind |-> "garbage"], [kind |-> "null"], JSONstringify(<<>>) }

InitLocal ==
  /\ app = "local"
  /\ now = StartTime
  /\ uuidCount = 0
  /\ tasks = <<>>
  /\ taskStats = NoStats
  /\ isModalOpen = FALSE
  /\ showForm = FALSE
  /\ editingTask = Null
  /\ editingId = 0
  /\ formData = EmptyForm
  /\ errors = EmptyObj
  /\ error = ""
  /\ storage \in InitialStorage
  /\ pending = Null
  /\ phase = "unmounted"
  /\ lastError = "none"
  /\ steps = 0
  /\ filter = "all"
  /\ filteredTasks = <<>>
  /\ sortedTasks = <<>>

----------------------------------------------------------------------------
(* local app: TaskForm (src/setupTests.js) *)

\* validate without the test of the title
LocalTaskForm_validate_noTitle(fd) ==
  LET failing == { k \in DOMAIN fd :
                     \/ k = "description" /\ IsEmptyStr(Trim(fd.description))
                     \/ k = "dueDate" /\ fd.dueDate = "" }
  IN  [ k \in failing |->
          CASE k = "description" -> "Description is required"
            [] k = "dueDate" -> "Due date is required" ]

LocalTaskForm_validate(fd) ==
  LET failing == { k \in DOMAIN fd :
                     \/ k = "title" /\ IsEmptyStr(Trim(fd.title))
                     \/ k = "description" /\ IsEmptyStr(Trim(fd.description))
                     \/ k = "dueDate" /\ fd.dueDate = "" }
  IN  [ k \in failing |->
          CASE k = "title" -> "Title is required"
            [] k = "description" -> "Description is required"
            [] k = "dueDate" -> "Due date is required" ]

----------------------------------------------------------------------------
(* local app: App (unnamed/part_009) *)

LocalInert ==
  /\ UNCHANGED << app, now, uuidCount, taskStats, isModalOpen, editingId, error >>
  /\ ListInert

\* an error thrown in an effect or in a render is caught by no error
\* boundary: React unmounts the whole tree
LocalCrash(name) ==
  /\ phase' = "crashed"
  /\ lastError' = name
  /\ tasks' = <<>>
  /\ editingTask' = Null
  /\ showForm' = FALSE
  /\ formData' = EmptyForm
  /\ errors' = EmptyObj
  /\ pending' = Null
  /\ UNCHANGED storage

\* setTasks with a save effect that writes the tasks of the previous render
LocalApp_setTasks_stale(newTasks, saveOk, newEditingTask, newShowForm) ==
  IF saveOk
  THEN /\ tasks' = newTasks
       /\ storage' = JSONstringify(tasks)
       /\ editingTask' = newEditingTask
       /\ showForm' = newShowForm
       /\ formData' = IF newShowForm THEN formData ELSE EmptyForm
       /\ errors' = IF newShowForm THEN errors ELSE EmptyObj
       /\ UNCHANGED << pending, phase, lastError >>
  ELSE LocalCrash("QuotaExceededError")

\* setTasks(newTasks) in a handler, the re-render, and the save effect
\* localStorage.setItem('tasks', JSON.stringify(tasks)), which throws when
\* the storage refuses the write (saveOk = FALSE)
LocalApp_setTasks(newTasks, saveOk, newEditingTask, newShowForm) ==
  IF saveOk
  THEN /\ tasks' = newTasks
       /\ storage' = JSONstringify(newTasks)
       /\ editingTask' = newEditingTask
       /\ showForm' = newShowForm
       /\ formData' = IF newShowForm THEN formData ELSE EmptyForm
       /\ errors' = IF newShowForm THEN errors ELSE EmptyObj
       /\ UNCHANGED << pending, phase, lastError >>
  ELSE LocalCrash("QuotaExceededError")

\* the mount with a load effect that lacks the test if (savedTasks)
LocalApp_mount_unguarded(saveOk) ==
  LET savedTasks == storage
      parsed     == IF savedTasks # Null THEN JSONparse(savedTasks)
                    ELSE [ threw |-> "none", type |-> "null", value |-> Null ]
  IN  /\ app = "local"
      /\ phase = "unmounted"
      /\ IF parsed.threw # "none"
         THEN LocalCrash(parsed.threw)
         ELSE IF ~saveOk
         THEN LocalCrash("QuotaExceededError")
         ELSE /\ storage' = JSONstringify(tasks)
              /\ pending' = parsed
              /\ phase' = "loaded"
              /\ UNCHANGED << tasks, editingTask, showForm, formData, errors, lastError >>
      /\ UNCHANGED steps
      /\ LocalInert

\* the first render with useState([]) and the two mount effects
LocalApp_mount(saveOk) ==
  LET savedTasks == storage
      parsed     == IF savedTasks # Null THEN JSONparse(savedTasks)
                    ELSE [ threw |-> "none", type |-> "undefined", value |-> Null ]
  IN  /\ app = "local"
      /\ phase = "unmounted"
      /\ IF parsed.threw # "none"
         THEN LocalCrash(parsed.threw)
         ELSE IF ~saveOk
         THEN LocalCrash("QuotaExceededError")
         ELSE /\ storage' = JSONstringify(tasks)
              /\ pending' = IF savedTasks # Null THEN parsed ELSE Null
              /\ phase' = IF savedTasks # Null THEN "loaded" ELSE "ready"
              /\ UNCHANGED << tasks, editingTask, showForm, formData, errors, lastError >>
      /\ UNCHANGED steps
      /\ LocalInert

\* a re-render that loses the setTasks of the load effect
LocalApp_rerender_lost(saveOk) ==
  /\ app = "local"
  /\ phase = "loaded"
  /\ IF ~saveOk
     THEN LocalCrash("QuotaExceededError")
     ELSE /\ storage' = JSONstringify(tasks)
          /\ pending' = Null
          /\ phase' = "ready"
          /\ UNCHANGED << tasks, editingTask, showForm, formData, errors, lastError >>
  /\ UNCHANGED steps
  /\ LocalInert

\* the render with the loaded tasks and the save effect that follows it
LocalApp_rerender(saveOk) ==
  /\ app = "local"
  /\ phase = "loaded"
  /\ IF pending.type # "array"
     THEN LocalCrash("TypeError")
     ELSE IF ~saveOk
     THEN LocalCrash("QuotaExceededError")
     ELSE /\ tasks' = pending.value
          /\ storage' = JSONstringify(pending.value)
          /\ pending' = Null
          /\ phase' = "ready"
          /\ UNCHANGED << editingTask, showForm, formData, errors, lastError >>
  /\ UNCHANGED steps
  /\ LocalInert

\* the page is reloaded or closed and opened again
LocalApp_reload ==
  /\ app = "local"
  /\ phase # "unmounted"
  /\ Event
  /\ phase' = "unmounted"
  /\ lastError' = "none"
  /\ tasks' = <<>>
  /\ editingTask' = Null
  /\ showForm' = FALSE
  /\ formData' = EmptyForm
  /\ errors' = EmptyObj
  /\ pending' = Null
  /\ UNCHANGED storage
  /\ LocalInert

LocalApp_addTask(task, saveOk) ==
  LET newTask == Spread(Spread([id |-> now], task),
                        [completed |-> FALSE, createdAt |-> ToISOString(now)])
  IN  /\ Len(tasks) < MaxTasks
      /\ LocalApp_setTasks(Append(tasks, newTask), saveOk, editingTask, FALSE)

LocalApp_updateTask(updatedTask, saveOk) ==
  LocalApp_setTasks([ i \in 1..Len(tasks) |->
                        IF tasks[i].id = updatedTask.id
                        THEN Spread(tasks[i], updatedTask)
                        ELSE tasks[i] ],
                    saveOk, Null, FALSE)

\* TaskForm.handleSubmit with the form holding fd
LocalTaskForm_handleSubmit(fd, saveOk) ==
  LET newErrors == LocalTaskForm_validate(fd)
  IN  /\ app = "local"
      /\ phase = "ready"
      /\ showForm
      /\ Event
      /\ IF DOMAIN newErrors = {}
         THEN IF editingTask # Null
              THEN LocalApp_updateTask(Spread(editingTask, fd), saveOk)
              ELSE LocalApp_addTask(fd, saveOk)
         ELSE /\ saveOk
              /\ errors' = newErrors
              /\ UNCHANGED << tasks, storage, editingTask, showForm, formData, pending,
                              phase, lastError >>
      /\ LocalInert

LocalApp_toggleComplete(id, saveOk) ==
  /\ app = "local"
  /\ phase = "ready"
  /\ Event
  /\ LocalApp_setTasks([ i \in 1..Len(tasks) |->
                           IF tasks[i].id = id
                           THEN Spread(tasks[i], [completed |-> ~tasks[i].completed])
                           ELSE tasks[i] ],
                       saveOk, editingTask, showForm)
  /\ LocalInert

\* deleteTask without the test of the answer to window.confirm
LocalApp_deleteTask_unconfirmed(id, confirmed, saveOk) ==
  /\ app = "local"
  /\ phase = "ready"
  /\ Event
  /\ LocalApp_setTasks(SelectSeq(tasks, LAMBDA task : task.id # id),
                       saveOk, editingTask, showForm)
  /\ LocalInert

\* confirmed is the answer to window.confirm
LocalApp_deleteTask(id, confirmed, saveOk) ==
  /\ app = "local"
  /\ phase = "ready"
  /\ Event
  /\ IF confirmed
     THEN LocalApp_setTasks(SelectSeq(tasks, LAMBDA task : task.id # id),
                            saveOk, editingTask, showForm)
     ELSE /\ saveOk
          /\ UNCHANGED << tasks, storage, editingTask, showForm, formData, errors,
                          pending, phase, lastError >>
  /\ LocalInert

\* the button '+ Add New Task', rendered while the form is hidden
LocalApp_showAddForm ==
  /\ app = "local"
  /\ phase = "ready"
  /\ ~showForm
  /\ Event
  /\ showForm' = TRUE
  /\ formData' = EmptyForm
  /\ errors' = EmptyObj
  /\ UNCHANGED << tasks, storage, editingTask, pending, phase, lastError >>
  /\ LocalInert

LocalApp_handleEdit(task) ==
  /\ app = "local"
  /\ phase = "ready"
  /\ Event
  /\ editingTask' = task
  /\ showForm' = TRUE
  /\ formData' = [ title |-> task.title, description |-> task.description,
                   dueDate |-> task.dueDate ]
  /\ errors' = IF showForm THEN errors ELSE EmptyObj
  /\ UNCHANGED << tasks, storage, pending, phase, lastError >>
  /\ LocalInert

LocalApp_handleCancel ==
  /\ app = "local"
  /\ phase = "ready"
  /\ showForm
  /\ Event
  /\ editingTask' = Null
  /\ showForm' = FALSE
  /\ formData' = EmptyForm
  /\ errors' = EmptyObj
  /\ UNCHANGED << tasks, storage, pending, phase, lastError >>
  /\ LocalInert

NextLocal ==
  \/ \E saveOk \in BOOLEAN : LocalApp_mount(saveOk)
  \/ \E saveOk \in BOOLEAN : LocalApp_rerender(saveOk)
  \/ LocalApp_reload
  \/ LocalApp_showAddForm
  \/ \E i \in 1..Len(tasks) : LocalApp_handleEdit(tasks[i])
  \/ LocalApp_handleCancel
  \/ \E fd \in FormContents, saveOk \in BOOLEAN : LocalTaskForm_handleSubmit(fd, saveOk)
  \/ \E i \in 1..Len(tasks), saveOk \in BOOLEAN :
       LocalApp_toggleComplete(tasks[i].id, saveOk)
  \/ \E i \in 1..Len(tasks), confirmed \in BOOLEAN, saveOk \in BOOLEAN :
       LocalApp_deleteTask(tasks[i].id, confirmed, saveOk)
  \/ (app = "local" /\ phase = "ready" /\ Tick)

SpecLocal == InitLocal /\ [][NextLocal]_vars

----------------------------------------------------------------------------
(* cdn app: App (unnamed/part_005, the second file of that part) *)

RequiredMessage == "Title and due date are required to create clarity."

InitCdn ==
  /\ app = "cdn"
  /\ now = StartTime
  /\ uuidCount = 0
  /\ tasks = seedTasks
  /\ taskStats = statsOf(seedTasks)
  /\ isModalOpen = FALSE
  /\ showForm = FALSE
  /\ editingTask = Null
  /\ editingId = 0
  /\ formData = EmptyForm
  /\ errors = EmptyObj
  /\ error = ""
  /\ storage = Null
  /\ pending = Null
  /\ phase = "ready"
  /\ lastError = "none"
  /\ steps = 0
  /\ filter = "all"
  /\ filteredTasks = <<>>
  /\ sortedTasks = <<>>

CdnInert ==
  /\ Event
  /\ ListInert
  /\ UNCHANGED << app, now, uuidCount, isModalOpen, showForm, editingTask, errors,
                  storage, pending, phase, lastError >>

\* resetForm: setForm(emptyForm); setEditingId(null); setError("")
CdnApp_resetForm ==
  /\ formData' = EmptyForm
  /\ editingId' = 0
  /\ error' = ""

\* the button 'Cancel edit', rendered while a task is being edited
CdnApp_cancelEdit ==
  /\ app = "cdn"
  /\ editingId # 0
  /\ CdnApp_resetForm
  /\ UNCHANGED << tasks, taskStats >>
  /\ CdnInert

\* handleSubmit with the form holding fd
CdnApp_handleSubmit(fd) ==
  LET normalized == Spread(fd, [ title |-> Trim(fd.title),
                                 description |-> Trim(fd.description),
                                 dueDate |-> fd.dueDate ])
      newTask    == Spread([ id |-> now, status |-> "pending" ], normalized)
  IN  /\ app = "cdn"
      /\ IF IsEmptyStr(Trim(fd.title)) \/ fd.dueDate = ""
         THEN /\ error' = RequiredMessage
              /\ UNCHANGED << tasks, taskStats, formData, editingId >>
         ELSE /\ IF editingId # 0
                 THEN tasks' = [ i \in 1..Len(tasks) |->
                                   IF tasks[i].id = editingId
                                   THEN Spread(tasks[i], normalized)
                                   ELSE tasks[i] ]
                 ELSE /\ Len(tasks) < MaxTasks
                      /\ tasks' = <<newTask>> \o tasks
              /\ CdnApp_resetForm
              /\ taskStats' = statsOf(tasks')
      /\ CdnInert

CdnApp_startEdit(task) ==
  /\ app = "cdn"
  /\ editingId' = task.id
  /\ formData' = [ title |-> task.title, description |-> task.description,
                   dueDate |-> task.dueDate ]
  /\ error' = ""
  /\ UNCHANGED << tasks, taskStats >>
  /\ CdnInert

CdnApp_toggleStatus(id) ==
  /\ app = "cdn"
  /\ tasks' = [ i \in 1..Len(tasks) |->
                  IF tasks[i].id = id
                  THEN Spread(tasks[i],
                              [ status |-> IF tasks[i].status = "completed"
                                           THEN "pending" ELSE "completed" ])
                  ELSE tasks[i] ]
  /\ taskStats' = statsOf(tasks')
  /\ UNCHANGED << formData, editingId, error >>
  /\ CdnInert

CdnApp_deleteTask(id) ==
  /\ app = "cdn"
  /\ tasks' = SelectSeq(tasks, LAMBDA task : task.id # id)
  /\ IF editingId = id
     THEN CdnApp_resetForm
     ELSE UNCHANGED << formData, editingId, error >>
  /\ taskStats' = statsOf(tasks')
  /\ CdnInert

NextCdn ==
  \/ CdnApp_cancelEdit
  \/ \E fd \in FormContents : CdnApp_handleSubmit(fd)
  \/ \E i \in 1..Len(tasks) : CdnApp_startEdit(tasks[i])
  \/ \E i \in 1..Len(tasks) : CdnApp_toggleStatus(tasks[i].id)
  \/ \E i \in 1..Len(tasks) : CdnApp_deleteTask(tasks[i].id)
  \/ (app = "cdn" /\ Tick)

SpecCdn == InitCdn /\ [][NextCdn]_vars

----------------------------------------------------------------------------
(* the three applications together *)

Init == InitUuid \/ InitLocal \/ InitCdn

Next == NextUuid \/ NextLocal \/ NextCdn

Spec == Init /\ [][Next]_vars

----------------------------------------------------------------------------
(* App.taskStats as a function of the collection it is given *)

\* a collection of total tasks of which the first completed ones are completed
StatsTasks(completed, total) ==
  [ i \in 1..total |-> [ id |-> Uuid(i), completed |-> i <= completed ] ]

InitStats ==
  /\ app = "stats"
  /\ now = StartTime
  /\ uuidCount = 0
  /\ tasks \in UNION { { StatsTasks(completed, total) : completed \in 0..total } :
                         total \in 0..StatsMaxTotal }
  /\ taskStats = NoStats
  /\ isModalOpen = FALSE
  /\ showForm = FALSE
  /\ editingTask = Null
  /\ editingId = 0
  /\ formData = EmptyForm
  /\ errors = EmptyObj
  /\ error = ""
  /\ storage = Null
  /\ pending = Null
  /\ phase = "input"
  /\ lastError = "none"
  /\ steps = 0
  /\ filter = "all"
  /\ filteredTasks = <<>>
  /\ sortedTasks = <<>>

\* the render that computes taskStats from the tasks
App_taskStats ==
  /\ app = "stats"
  /\ phase = "input"
  /\ taskStats' = taskStatsOf(tasks)
  /\ phase' = "ready"
  /\ UNCHANGED << app, now, uuidCount, tasks, isModalOpen, showForm, editingTask,
                  editingId, formData, errors, error, storage, pending, lastError,
                  steps >>
  /\ ListInert

NextStats == App_taskStats

SpecStats == InitStats /\ [][NextStats]_vars

----------------------------------------------------------------------------
(* Two handler calls from the same render *)

\* the calls the cards of the tasks shown can make: onToggleComplete(task.id)
\* and onDelete(task.id)
CardCalls ==
  [ handler : { "toggleComplete", "deleteTask" }, id : Ids(tasks) ]

\* local app: the array that the handler of call hands to setTasks when the
\* render it was created in had the tasks ts (window.confirm answered yes)
LocalApp_newTasks(call, ts) ==
  IF call.handler = "toggleComplete"
  THEN [ i \in 1..Len(ts) |->
           IF ts[i].id = call.id
           THEN Spread(ts[i], [completed |-> ~ts[i].completed])
           ELSE ts[i] ]
  ELSE SelectSeq(ts, LAMBDA task : task.id # call.id)

\* local app: two handlers of one render are called before React renders
\* again; each hands setTasks an array computed from the tasks of that render,
\* and the state becomes the array of the last call
LocalApp_twoCalls(first, second, saveOk) ==
  /\ app = "local"
  /\ phase = "ready"
  /\ Event
  /\ LocalApp_setTasks(LocalApp_newTasks(second, tasks), saveOk, editingTask, showForm)
  /\ LocalInert

\* uuid app: the updater function that the handler of call hands to setTasks,
\* applied to prevTasks
UuidApp_updater(call, prevTasks) ==
  IF call.handler = "toggleComplete"
  THEN [ i \in 1..Len(prevTasks) |->
           IF prevTasks[i].id = call.id
           THEN Spread(prevTasks[i], [ completed |-> ~prevTasks[i].completed,
                                       updatedAt |-> ToISOString(now) ])
           ELSE prevTasks[i] ]
  ELSE SelectSeq(prevTasks, LAMBDA task : task.id # call.id)

\* uuid app: two handlers of one render are called before React renders
\* again; React applies the two updater functions one after the other
UuidApp_twoCalls(first, second) ==
  /\ app = "uuid"
  /\ tasks' = UuidApp_updater(second, UuidApp_updater(first, tasks))
  /\ taskStats' = taskStatsOf(tasks')
  /\ UNCHANGED << uuidCount, isModalOpen, editingTask, formData, errors >>
  /\ UuidInert

InitBatch == InitUuid \/ InitLocal

NextBatch ==
  \/ NextUuid
  \/ NextLocal
  \/ \E first, second \in CardCalls, saveOk \in BOOLEAN :
       LocalApp_twoCalls(first, second, saveOk)
  \/ \E first, second \in CardCalls : UuidApp_twoCalls(first, second)

SpecBatch == InitBatch /\ [][NextBatch]_vars

----------------------------------------------------------------------------
(* The TaskList components as functions of the tasks they are handed *)

\* new Date(dateString) as a number: the days since 2025-12-31
DateTime(dateString) ==
  CASE dateString = "2026-01-15" -> 15
    [] dateString = "2026-01-16" -> 16
    [] dateString = "2026-01-18" -> 18
    [] dateString = "2026-01-20" -> 20
    [] dateString = "2026-03-01" -> 60

\* Array.prototype.sort with a consistent compare function, of which
\* compared[j][i] is the value for the elements j and i of the array: the sort
\* is stable, an element comes before another when the value is negative, or
\* zero and it came before
ArraySort(array, compared) ==
  LET n == Len(array)
      rank(i) == 1 + Cardinality({ j \in 1..n :
                      \/ compared[j][i] < 0
                      \/ compared[j][i] = 0 /\ j < i })
  IN  [ k \in 1..n |-> array[CHOOSE i \in 1..n : rank(i) = k] ]

\* local app, TaskList: the compare function of sortedTasks
LocalTaskList_compare(a, b) ==
  IF a.completed = b.completed THEN 0
  ELSE IF a.completed THEN 1 ELSE -1

\* local app, TaskList({ tasks }): the array it was handed, as the render
\* leaves it, and the list it shows
LocalTaskList(ts) ==
  [ tasks       |-> ts,
    sortedTasks |-> ArraySort(ts, [ j \in 1..Len(ts) |-> [ i \in 1..Len(ts) |->
                                      LocalTaskList_compare(ts[j], ts[i]) ] ]) ]

FILTER_OPTIONS == << "all", "pending", "completed" >>

\* filteredTasks with the test of the 'pending' case inverted
UuidTaskList_filteredTasks_inverted(ts, f) ==
  CASE f = "completed" -> SelectSeq(ts, LAMBDA task : task.completed)
    [] f = "pending" -> SelectSeq(ts, LAMBDA task : task.completed)
    [] OTHER -> ts

UuidTaskList_filteredTasks(ts, f) ==
  CASE f = "completed" -> SelectSeq(ts, LAMBDA task : task.completed)
    [] f = "pending" -> SelectSeq(ts, LAMBDA task : ~task.completed)
    [] OTHER -> ts

\* the compare function with the sign of the completed test reversed
UuidTaskList_compare_reversed(a, b) ==
  IF a.completed # b.completed
  THEN IF a.completed THEN -1 ELSE 1
  ELSE DateTime(a.dueDate) - DateTime(b.dueDate)

\* uuid app, TaskList: the compare function of sortedTasks
UuidTaskList_compare(a, b) ==
  IF a.completed # b.completed
  THEN IF a.completed THEN 1 ELSE -1
  ELSE DateTime(a.dueDate) - DateTime(b.dueDate)

\* sortedTasks: the filtered tasks, sorted
UuidTaskList_sortedTasks(filtered) ==
  ArraySort(filtered, [ j \in 1..Len(filtered) |-> [ i \in 1..Len(filtered) |->
                          UuidTaskList_compare(filtered[j], filtered[i]) ] ])

\* the render with filteredTasks.sort(...) in place of [...filteredTasks].sort(...):
\* under 'all' filteredTasks is the array of the store itself
UuidTaskList_inplace(ts, f) ==
  LET sorted == UuidTaskList_sortedTasks(UuidTaskList_filteredTasks(ts, f))
  IN  [ tasks         |-> IF f \in {"completed", "pending"} THEN ts ELSE sorted,
        filteredTasks |-> sorted,
        sortedTasks   |-> sorted ]

\* uuid app, TaskList({ tasks }) with the filter f: the array it was handed,
\* as the render leaves it, filteredTasks and the list it shows
UuidTaskList(ts, f) ==
  [ tasks         |-> ts,
    filteredTasks |-> UuidTaskList_filteredTasks(ts, f),
    sortedTasks   |-> UuidTaskList_sortedTasks(UuidTaskList_filteredTasks(ts, f)) ]

\* the tasks a list can be handed
ListDueDates == { "2026-01-15", "2026-01-20", "2026-03-01" }

ListTask(i, completed, dueDate) ==
  [ id |-> Uuid(i), title |-> Str("abc", 3), description |-> EmptyStr,
    dueDate |-> dueDate, completed |-> completed, createdAt |-> ToISOString(StartTime) ]

ListCollections ==
  UNION { { [ i \in 1..n |-> ListTask(i, completed[i], dueDate[i]) ] :
              completed \in [1..n -> BOOLEAN], dueDate \in [1..n -> ListDueDates] } :
          n \in 0..MaxListTasks }

InitList ==
  /\ app \in { "uuid.TaskList", "local.TaskList" }
  /\ now = StartTime
  /\ uuidCount = 0
  /\ tasks \in ListCollections
  /\ taskStats = NoStats
  /\ isModalOpen = FALSE
  /\ showForm = FALSE
  /\ editingTask = Null
  /\ editingId = 0
  /\ formData = EmptyForm
  /\ errors = EmptyObj
  /\ error = ""
  /\ storage = Null
  /\ pending = Null
  /\ phase = "input"
  /\ lastError = "none"
  /\ steps = 0
  /\ filter = "all"
  /\ filteredTasks = <<>>
  /\ sortedTasks = <<>>

IsListApp == app \in { "uuid.TaskList", "local.TaskList" }

ListFrame ==
  UNCHANGED << app, now, uuidCount, taskStats, isModalOpen, showForm, editingTask,
               editingId, formData, errors, error, storage, pending, lastError, steps >>

\* the collections the parent hands down after onToggleComplete(task.id) or
\* onDelete(task.id) of a task that is shown
PropsAfterEvent ==
  { [ i \in 1..Len(tasks) |->
        IF tasks[i].id = sortedTasks[k].id
        THEN Spread(tasks[i], [completed |-> ~tasks[i].completed])
        ELSE tasks[i] ] : k \in 1..Len(sortedTasks) }
  \cup { SelectSeq(tasks, LAMBDA task : task.id # sortedTasks[k].id) :
           k \in 1..Len(sortedTasks) }

\* a render of the local TaskList with the tasks ts
LocalTaskList_render(ts) ==
  /\ app = "local.TaskList"
  /\ tasks' = LocalTaskList(ts).tasks
  /\ sortedTasks' = LocalTaskList(ts).sortedTasks
  /\ filteredTasks' = ts
  /\ phase' = "ready"
  /\ UNCHANGED filter
  /\ ListFrame

\* a render of the uuid TaskList with the tasks ts and the filter f
UuidTaskList_render(ts, f) ==
  /\ app = "uuid.TaskList"
  /\ tasks' = UuidTaskList(ts, f).tasks
  /\ filter' = f
  /\ filteredTasks' = UuidTaskList(ts, f).filteredTasks
  /\ sortedTasks' = UuidTaskList(ts, f).sortedTasks
  /\ phase' = "ready"
  /\ ListFrame

\* the first render
TaskList_mount ==
  /\ phase = "input"
  /\ \/ LocalTaskList_render(tasks)
     \/ UuidTaskList_render(tasks, "all")

\* a click on a filter button: setFilter(option.value)
UuidTaskList_setFilter(f) ==
  /\ phase = "ready"
  /\ UuidTaskList_render(tasks, f)

\* the parent renders again with changed tasks
TaskList_rerender(ts) ==
  /\ phase = "ready"
  /\ \/ LocalTaskList_render(ts)
     \/ UuidTaskList_render(ts, filter)

NextList ==
  \/ TaskList_mount
  \/ \E k \in 1..Len(FILTER_OPTIONS) : UuidTaskList_setFilter(FILTER_OPTIONS[k])
  \/ \E ts \in PropsAfterEvent : TaskList_rerender(ts)

SpecList == InitList /\ [][NextList]_vars

----------------------------------------------------------------------------
(* Claims *)

\* C1: in every state the statistics shown are the projection of the current
\* tasks: total is their number, completed the number of completed ones,
\* pending the difference, and completionRate is 0 for no task and otherwise
\* 100 * completed / total rounded to the nearest integer.
C1_StatsAreProjection ==
  (app \in {"uuid", "stats"} /\ phase = "ready") =>
    LET total     == Len(tasks)
        completed == Cardinality({ i \in 1..Len(tasks) : tasks[i].completed })
    IN  taskStats = [ total          |-> total,
                      completed      |-> completed,
                      pending        |-> total - completed,
                      completionRate |-> IF total = 0 THEN 0
                                         ELSE (200 * completed + total) \div (2 * total) ]

\* C2: a create with a valid input adds exactly one task, which carries the
\* trimmed title, the trimmed description and the dueDate submitted and is not
\* completed, and every task present before is still present and unchanged.
C2_CreateAddsTrimmedTask ==
  [][ \A fd \in FormContents :
        ( /\ editingTask = Null
          /\ Length(Trim(fd.title)) >= 3
          /\ Length(Trim(fd.title)) <= 100
          /\ Length(fd.description) <= 500
          /\ fd.dueDate # ""
          /\ \/ UuidTaskForm_handleSubmit(fd)
             \/ LocalTaskForm_handleSubmit(fd, TRUE) )
        => /\ Len(tasks') = Len(tasks) + 1
           /\ \A i \in 1..Len(tasks) : \E j \in 1..Len(tasks') : tasks'[j] = tasks[i]
           /\ \E j \in 1..Len(tasks') :
                /\ tasks'[j].title = Trim(fd.title)
                /\ tasks'[j].description = Trim(fd.description)
                /\ tasks'[j].dueDate = fd.dueDate
                /\ tasks'[j].completed = FALSE ]_vars

\* C3: a create or update whose input fails validation (a title of trimmed
\* length below 3 or above 100, a description above 500, no due date) changes
\* neither the tasks, nor the statistics, nor the persisted copy: no step that
\* changes one of them is the submit of such an input.
C3_RejectedInputMutatesNothing ==
  [][ (tasks' # tasks \/ taskStats' # taskStats \/ storage' # storage)
      => ~ \E fd \in FormContents :
             /\ \/ Length(Trim(fd.title)) < 3
                \/ Length(Trim(fd.title)) > 100
                \/ Length(fd.description) > 500
                \/ fd.dueDate = ""
             /\ UuidTaskForm_handleSubmit(fd) ]_vars

\* an update was rejected for its title and the seed tasks are as they were
C3_Witness ==
  /\ app = "uuid"
  /\ isModalOpen
  /\ editingTask # Null
  /\ "title" \in DOMAIN errors
  /\ tasks = INITIAL_TASKS
  /\ steps >= 2

\* C4: a toggle of a task in the collection flips that task's completed value
\* (so that two toggles in a row restore it), changes the number of completed
\* tasks and the number of pending tasks by exactly one, and keeps the total.
C4_ToggleFlipsOne ==
  [][ \A k \in 1..Len(tasks) :
        ( \/ UuidApp_handleToggleComplete(tasks[k].id)
          \/ LocalApp_toggleComplete(tasks[k].id, TRUE) )
        => LET done(ts) == Cardinality({ i \in 1..Len(ts) : ts[i].completed })
           IN  /\ Len(tasks') = Len(tasks)
               /\ tasks'[k].completed = ~tasks[k].completed
               /\ done(tasks') - done(tasks) \in {1, -1}
               /\ (Len(tasks') - done(tasks')) - (Len(tasks) - done(tasks)) \in {1, -1} ]_vars

\* C5: a delete of a task in the collection removes exactly that task: its id
\* is gone, the total is one less, the other tasks are unchanged and in the
\* same order, deleting the last task leaves the statistics at zero, and no
\* step brings back an id that was assigned before.
C5_DeleteRemovesExactlyThatTask ==
  [][ /\ \A k \in 1..Len(tasks) :
           UuidApp_handleDeleteTask(tasks[k].id)
           => /\ tasks[k].id \notin Ids(tasks')
              /\ Len(tasks') = Len(tasks) - 1
              /\ taskStats'.total = taskStats.total - 1
              /\ \A i \in 1..Len(tasks') :
                   tasks'[i] = IF i < k THEN tasks[i] ELSE tasks[i + 1]
              /\ Len(tasks') = 0
                   => taskStats' = [ total |-> 0, completed |-> 0, pending |-> 0,
                                     completionRate |-> 0 ]
      /\ \A i \in 1..Len(tasks) : tasks[i].id[2] <= uuidCount
      /\ \A i \in 1..Len(tasks') :
           tasks'[i].id \in Ids(tasks) \/ tasks'[i].id[2] > uuidCount ]_vars

\* the three seed tasks were deleted one after the other
C5_Witness ==
  /\ app = "uuid"
  /\ tasks = <<>>
  /\ taskStats = [ total |-> 0, completed |-> 0, pending |-> 0, completionRate |-> 0 ]

\* C6: an update, toggle or delete that refers to an id no task of the
\* collection has ends in a NotFoundError the caller can observe.
C6_MissingIdIsReported ==
  [][ ( /\ app \in {"uuid", "local"}
        /\ editingTask # Null
        /\ editingTask.id \notin Ids(tasks)
        /\ \/ \E fd \in FormContents :
                /\ DOMAIN UuidTaskForm_validateForm(fd) = {}
                /\ UuidTaskForm_handleSubmit(fd)
           \/ \E fd \in FormContents :
                /\ DOMAIN LocalTaskForm_validate(fd) = {}
                /\ LocalTaskForm_handleSubmit(fd, TRUE)
           \/ UuidApp_handleToggleComplete(editingTask.id)
           \/ UuidApp_handleDeleteTask(editingTask.id)
           \/ LocalApp_toggleComplete(editingTask.id, TRUE)
           \/ LocalApp_deleteTask(editingTask.id, TRUE, TRUE) )
      => lastError' = "NotFoundError" ]_vars

\* C7: once a mutating operation has returned, the persisted copy is the
\* serialization of the tasks in memory.
C7_PersistedCopyIsCurrent ==
  (app = "local" /\ phase = "ready") => storage = JSONstringify(tasks)

\* two tasks were created, one was toggled, and the copy holds both
C7_Witness ==
  /\ app = "local"
  /\ phase = "ready"
  /\ Len(tasks) = 2
  /\ \E i \in 1..Len(tasks) : tasks[i].completed
  /\ storage.kind = "array"
  /\ Len(storage.items) = 2

\* C8: when the adapter holds a persisted collection at start-up, the load
\* reads a collection whose serialization is the persisted text, and the
\* initialization ends with that collection as the tasks in memory.
C8_LoadRestoresPersisted ==
  [][ /\ ( /\ app = "local"
           /\ phase = "unmounted"
           /\ storage # Null
           /\ storage.kind = "array"
           /\ phase' # "crashed" )
         => /\ phase' = "loaded"
            /\ pending'.type = "array"
            /\ JSONstringify(pending'.value) = storage
      /\ ( /\ app = "local"
           /\ phase = "loaded"
           /\ phase' = "ready" )
         => tasks' = pending.value ]_vars

\* after a reload the load effect has read a persisted task
C8_Witness ==
  /\ app = "local"
  /\ phase = "loaded"
  /\ pending.type = "array"
  /\ Len(pending.value) > 0
  /\ steps >= 3

\* C9: a persisted value that is not the serialization of a task collection
\* does not crash the initialization.
C9_BadStorageFailsOpen ==
  ~(app = "local" /\ phase = "crashed" /\ lastError \in {"SyntaxError", "TypeError"})

\* C10: when the save fails after a mutating operation the application stays
\* up, with the mutation applied to the tasks in memory.
C10_SaveFailureIsNotFatal ==
  [][ ( \/ \E fd \in FormContents :
             /\ DOMAIN LocalTaskForm_validate(fd) = {}
             /\ LocalTaskForm_handleSubmit(fd, FALSE)
        \/ \E k \in 1..Len(tasks) : LocalApp_toggleComplete(tasks[k].id, FALSE)
        \/ \E k \in 1..Len(tasks) : LocalApp_deleteTask(tasks[k].id, TRUE, FALSE) )
      => /\ phase' = "ready"
         /\ tasks' # tasks ]_vars

\* C11: ids are unique over the lifetime of the collection, so at every moment
\* no two tasks of the collection share an id, also when two creates read the
\* same clock value.
C11_IdsAreUnique ==
  \A i, j \in 1..Len(tasks) : i # j => tasks[i].id # tasks[j].id

\* C12: a successful update keeps the id, the completed flag and createdAt
\* that every task has in the collection at the moment the form is submitted,
\* whatever happened since the edit form was opened.
C12_UpdateKeepsIdCompletedCreatedAt ==
  [][ ( /\ app = "local"
        /\ editingTask # Null
        /\ \E fd \in FormContents :
             /\ DOMAIN LocalTaskForm_validate(fd) = {}
             /\ LocalTaskForm_handleSubmit(fd, TRUE) )
      => /\ Len(tasks') = Len(tasks)
         /\ \A i \in 1..Len(tasks) :
              /\ tasks'[i].id = tasks[i].id
              /\ tasks'[i].completed = tasks[i].completed
              /\ tasks'[i].createdAt = tasks[i].createdAt ]_vars

\* C13: a create or update is rejected with a title error exactly when the
\* trimmed title is shorter than 3 or longer than 100 characters, and a
\* rejected input changes no task.
C13_TitleLengthDecides ==
  [][ \A fd \in FormContents :
        ( \/ UuidTaskForm_handleSubmit(fd)
          \/ LocalTaskForm_handleSubmit(fd, TRUE) )
        => IF Length(Trim(fd.title)) < 3 \/ Length(Trim(fd.title)) > 100
           THEN "title" \in DOMAIN errors' /\ tasks' = tasks
           ELSE "title" \notin DOMAIN errors' ]_vars

C15_EveryFailingFieldIsReported ==
  [][ \A fd \in FormContents :
        LET failing == { k \in DOMAIN fd :
                           \/ k = "title" /\ Length(Trim(fd.title)) < 3
                           \/ k = "title" /\ Length(Trim(fd.title)) > 100
                           \/ k = "description" /\ Length(fd.description) > 500
                           \/ k = "dueDate" /\ fd.dueDate = "" }
        IN  ( /\ Cardinality(failing) > 1
              /\ \/ UuidTaskForm_handleSubmit(fd)
                 \/ LocalTaskForm_handleSubmit(fd, TRUE)
                 \/ CdnApp_handleSubmit(fd) )
            => \A k \in failing : k \in DOMAIN errors' /\ errors'[k] # "" ]_vars

\* C16: with a valid title and due date, a create or update succeeds when the
\* description is empty or has at most 500 characters, and is rejected with a
\* description error when it has more.
C16_DescriptionIsOptional ==
  [][ \A fd \in FormContents :
        ( /\ Length(Trim(fd.title)) >= 3
          /\ Length(Trim(fd.title)) <= 100
          /\ fd.dueDate # ""
          /\ \/ UuidTaskForm_handleSubmit(fd)
             \/ LocalTaskForm_handleSubmit(fd, TRUE) )
        => IF Length(fd.description) <= 500
           THEN /\ DOMAIN errors' = {}
                /\ ~isModalOpen'
                /\ ~showForm'
           ELSE /\ "description" \in DOMAIN errors'
                /\ tasks' = tasks ]_vars

C18_CreateAppendsAtTheEnd ==
  [][ ( /\ Len(tasks') = Len(tasks) + 1
        /\ \E fd \in FormContents :
             \/ UuidTaskForm_handleSubmit(fd)
             \/ LocalTaskForm_handleSubmit(fd, TRUE)
             \/ CdnApp_handleSubmit(fd) )
      => \A i \in 1..Len(tasks) : tasks'[i] = tasks[i] ]_vars

\* C19: a task has no updatedAt when it is created, every successful update
\* and every toggle of a task sets that task's updatedAt to the time of the
\* operation, and no update or toggle changes a task's createdAt.
C19_UpdatedAtFollowsUpdates ==
  [][ /\ \A k \in 1..Len(tasks) :
           ( \/ UuidApp_handleToggleComplete(tasks[k].id)
             \/ LocalApp_toggleComplete(tasks[k].id, TRUE) )
           => /\ "updatedAt" \in DOMAIN tasks'[k]
              /\ tasks'[k].updatedAt = ToISOString(now)
      /\ ( /\ editingTask # Null
           /\ \E fd \in FormContents :
                \/ DOMAIN UuidTaskForm_validateForm(fd) = {}
                     /\ UuidTaskForm_handleSubmit(fd)
                \/ DOMAIN LocalTaskForm_validate(fd) = {}
                     /\ LocalTaskForm_handleSubmit(fd, TRUE) )
         => \A k \in 1..Len(tasks) :
              tasks[k].id = editingTask.id
              => /\ "updatedAt" \in DOMAIN tasks'[k]
                 /\ tasks'[k].updatedAt = ToISOString(now)
      /\ ( app \in {"uuid", "local"} /\ Len(tasks') = Len(tasks) + 1 )
         => "updatedAt" \notin DOMAIN tasks'[Len(tasks')]
      /\ ( app \in {"uuid", "local"} /\ Len(tasks') = Len(tasks) )
         => \A k \in 1..Len(tasks) : tasks'[k].createdAt = tasks[k].createdAt ]_vars

----------------------------------------------------------------------------
\* C21: when localStorage holds no value for the key 'tasks' as the local app
\* starts, the start-up leaves the collection empty and queues no loaded
\* value, and the statistics of the collection are total = 0, completed = 0,
\* pending = 0 and completionRate = 0.
C21_NoValueStartsEmpty ==
  [][ ( /\ app = "local"
        /\ phase = "unmounted"
        /\ storage = Null
        /\ phase' # "unmounted" )
      => /\ tasks' = <<>>
         /\ pending' = Null
         /\ LocalDashboard_stats(tasks') =
              [ total |-> 0, completed |-> 0, pending |-> 0, completionRate |-> 0 ] ]_vars

\* the local app has started on an empty storage: it is ready at once, with
\* no task, and its save effect has written the empty collection
C21_Witness ==
  /\ app = "local"
  /\ phase = "ready"
  /\ steps = 0
  /\ pending = Null
  /\ tasks = <<>>
  /\ storage = JSONstringify(<<>>)

----------------------------------------------------------------------------
\* C22: a render of the task list never changes the collection of the store:
\* the first render and every change of the filter leave the tasks as they
\* were, the same tasks in the same order, and a render with tasks changed by
\* the parent leaves them as the parent handed them down.
C22_RenderLeavesTheStoreAlone ==
  [][ /\ ( TaskList_mount \/ \E k \in 1..Len(FILTER_OPTIONS) :
                               UuidTaskList_setFilter(FILTER_OPTIONS[k]) )
         => tasks' = tasks
      /\ \A ts \in PropsAfterEvent : TaskList_rerender(ts) => tasks' = ts ]_vars

\* a list has shown a collection in another order than the store's, the
\* uuid list under the filter 'all', where filteredTasks is the store's array
C22_Witness ==
  /\ IsListApp
  /\ phase = "ready"
  /\ filter = "all"
  /\ Len(tasks) >= 2
  /\ tasks[1].completed
  /\ ~tasks[2].completed
  /\ sortedTasks[1] = tasks[2]
  /\ sortedTasks # tasks

----------------------------------------------------------------------------
\* C23: a cancelled interaction mutates nothing: a step that changes the
\* tasks, the persisted copy or the statistics is never the opening of the
\* add or edit form, the cancelling or closing of the form, or a delete whose
\* confirmation was declined; so from before the form is opened until after
\* it is cancelled the stored tasks and their number are the same.
C23_CancelMutatesNothing ==
  [][ ( tasks' # tasks \/ storage' # storage \/ taskStats' # taskStats )
      => ~ ( \/ UuidApp_openAddModal
             \/ \E i \in 1..Len(tasks) : UuidApp_openEditModal(tasks[i])
             \/ UuidApp_closeModal
             \/ LocalApp_showAddForm
             \/ \E i \in 1..Len(tasks) : LocalApp_handleEdit(tasks[i])
             \/ LocalApp_handleCancel
             \/ \E i \in 1..Len(tasks) : LocalApp_deleteTask(tasks[i].id, FALSE, TRUE) ) ]_vars

\* the uuid app after a form was opened and closed again, and nothing else:
\* the tasks are the initial ones
C23_Witness ==
  /\ app = "uuid"
  /\ steps = 2
  /\ ~isModalOpen
  /\ editingTask = Null
  /\ tasks = INITIAL_TASKS
  /\ taskStats = taskStatsOf(INITIAL_TASKS)

----------------------------------------------------------------------------
\* C24: whatever the collection and whatever filter changes and mutations came
\* before, the list of the uuid app shows under 'pending' exactly the tasks
\* that are not completed, under 'completed' exactly the completed ones and
\* under 'all' every task, each once; under 'all' the number of tasks shown
\* is the total of the statistics.
C24_FilterShowsExactlyItsTasks ==
  (app = "uuid.TaskList" /\ phase = "ready")
    => LET shown    == { sortedTasks[k] : k \in 1..Len(sortedTasks) }
           expected == { tasks[i] : i \in { j \in 1..Len(tasks) :
                           \/ filter = "all"
                           \/ filter = "pending" /\ ~tasks[j].completed
                           \/ filter = "completed" /\ tasks[j].completed } }
       IN  /\ filter \in { "all", "pending", "completed" }
           /\ shown = expected
           /\ Len(sortedTasks) = Cardinality(expected)
           /\ Len(filteredTasks) = Len(sortedTasks)
           /\ filter = "all" => Len(sortedTasks) = taskStatsOf(tasks).total

\* the filter 'pending' hides a completed task and shows a pending one
C24_Witness ==
  /\ app = "uuid.TaskList"
  /\ phase = "ready"
  /\ filter = "pending"
  /\ \E i, j \in 1..Len(tasks) : tasks[i].completed /\ ~tasks[j].completed
  /\ Len(sortedTasks) >= 1
  /\ Len(sortedTasks) < Len(tasks)

----------------------------------------------------------------------------
\* C25: in the list that is shown no completed task comes before a pending
\* one, and the list is a permutation of the collection (of the tasks the
\* filter selects, in the uuid app): every task in it as often as there.
C25_CompletedAtTheBottom ==
  (IsListApp /\ phase = "ready")
    => LET selected == SelectSeq(tasks, LAMBDA task :
                         \/ app = "local.TaskList"
                         \/ filter = "all"
                         \/ filter = "pending" /\ ~task.completed
                         \/ filter = "completed" /\ task.completed)
       IN  /\ \A i, j \in 1..Len(sortedTasks) :
                i < j => ~(sortedTasks[i].completed /\ ~sortedTasks[j].completed)
           /\ Len(sortedTasks) = Len(selected)
           /\ \A i \in 1..Len(selected) :
                Cardinality({ k \in 1..Len(sortedTasks) : sortedTasks[k] = selected[i] })
                  = Cardinality({ k \in 1..Len(selected) : selected[k] = selected[i] })

\* the uuid list shows a collection that began with a completed task and had
\* its pending tasks in the reverse order of their due dates
C25_Witness ==
  /\ app = "uuid.TaskList"
  /\ phase = "ready"
  /\ filter = "all"
  /\ Len(tasks) = 3
  /\ tasks[1].completed /\ ~tasks[2].completed /\ ~tasks[3].completed
  /\ DateTime(tasks[3].dueDate) < DateTime(tasks[2].dueDate)
  /\ sortedTasks = << tasks[3], tasks[2], tasks[1] >>

----------------------------------------------------------------------------
\* C26: two mutating calls made one after the other are both reflected in
\* the collection, also when both come from the same render: a task that one
\* call deletes is gone, and a task that one call toggles, and the other call
\* does not touch, has its completed flag flipped.
C26_BothCallsAreReflected ==
  [][ \A first, second \in CardCalls :
        ( UuidApp_twoCalls(first, second) \/ LocalApp_twoCalls(first, second, TRUE) )
        => \A call \in { first, second } :
             IF call.handler = "deleteTask"
             THEN call.id \notin Ids(tasks')
             ELSE ( first.id # second.id )
                  => \A i \in 1..Len(tasks) :
                       tasks[i].id = call.id
                       => \E j \in 1..Len(tasks') :
                            /\ tasks'[j].id = call.id
                            /\ tasks'[j].completed = ~tasks[i].completed ]_vars

----------------------------------------------------------------------------
\* C27: when localStorage holds a non-empty collection as the local app
\* starts, no step of the start-up writes another collection in its place:
\* from the first render until the loaded tasks are shown, the stored text
\* stays the one that was there.
C27_StartupKeepsThePersistedTasks ==
  [][ ( /\ app = "local"
        /\ phase \in { "unmounted", "loaded" }
        /\ phase' \in { "loaded", "ready", "crashed" }
        /\ IF phase = "unmounted"
           THEN /\ storage # Null
                /\ storage.kind = "array"
                /\ Len(storage.items) > 0
           ELSE /\ pending.type = "array"
                /\ Len(pending.value) > 0 )
      => storage' = IF phase = "unmounted" THEN storage
                    ELSE JSONstringify(pending.value) ]_vars

----------------------------------------------------------------------------
\* C28: a toggle of a task changes nothing but the completed flag (the
\* status, in the cdn app) and updatedAt of that task: its other fields,
\* every other task, the number of tasks and their order stay as they were;
\* and for an id that no task has, the array a toggle computes is the
\* collection as it is.
C28_ToggleChangesOnlyCompleted ==
  [][ /\ \A i \in 1..Len(tasks) :
           ( \/ UuidApp_handleToggleComplete(tasks[i].id)
             \/ LocalApp_toggleComplete(tasks[i].id, TRUE)
             \/ CdnApp_toggleStatus(tasks[i].id) )
           => /\ Len(tasks') = Len(tasks)
              /\ \A j \in 1..Len(tasks) :
                   IF j # i
                   THEN tasks'[j] = tasks[j]
                   ELSE /\ DOMAIN tasks'[j] \ {"updatedAt"} = DOMAIN tasks[j] \ {"updatedAt"}
                        /\ \A k \in DOMAIN tasks[j] \ {"completed", "status", "updatedAt"} :
                             tasks'[j][k] = tasks[j][k]
      /\ app = "uuid" =>
           \A n \in 1..(MaxUuid + 1) :
             Uuid(n) \notin Ids(tasks)
             => UuidApp_updater([handler |-> "toggleComplete", id |-> Uuid(n)], tasks) = tasks
      /\ app = "local" =>
           \A id \in 0..(StartTime + MaxClock + 1) :
             id \notin Ids(tasks)
             => LocalApp_newTasks([handler |-> "toggleComplete", id |-> id], tasks) = tasks ]_vars

----------------------------------------------------------------------------
\* C29: a submit of the form in edit mode adds and removes no task and moves
\* none; it changes at most one task, the one with the id under edit, and of
\* that task nothing but title, description, dueDate and updatedAt. A submit
\* in add mode leaves every task that was there as it was, in the same order.
C29_UpdateChangesOnlyTheEditedFields ==
  [][ \A fd \in FormContents :
        ( \/ UuidTaskForm_handleSubmit(fd)
          \/ LocalTaskForm_handleSubmit(fd, TRUE)
          \/ CdnApp_handleSubmit(fd) )
        => IF editingTask # Null \/ editingId # 0
           THEN /\ Len(tasks') = Len(tasks)
                /\ Cardinality({ j \in 1..Len(tasks) : tasks'[j] # tasks[j] }) <= 1
                /\ \A j \in 1..Len(tasks) :
                     tasks'[j] # tasks[j]
                     => /\ tasks[j].id = IF app = "cdn" THEN editingId ELSE editingTask.id
                        /\ DOMAIN tasks'[j] \ {"updatedAt"} = DOMAIN tasks[j] \ {"updatedAt"}
                        /\ \A k \in DOMAIN tasks[j] \
                                      {"title", "description", "dueDate", "updatedAt"} :
                             tasks'[j][k] = tasks[j][k]
           ELSE \/ tasks' = tasks
                \/ \E n \in 1..Len(tasks') :
                     tasks = [ j \in 1..(Len(tasks') - 1) |->
                                 IF j < n THEN tasks'[j] ELSE tasks'[j + 1] ] ]_vars

----------------------------------------------------------------------------
\* C30: in every state in which an app is in edit mode (editingTask, or
\* editingId in the cdn app, is set), a task with the id under edit is in the
\* collection.
C30_TaskUnderEditExists ==
  /\ (app \in {"uuid", "local"} /\ editingTask # Null) => editingTask.id \in Ids(tasks)
  /\ (app = "cdn" /\ editingId # 0) => editingId \in Ids(tasks)

====
